---- MODULE Spec2Model ----
(***************************************************************************)
(* The fungible-token ledger of contracts/token(erc20)/src/contract.rs.    *)
(*                                                                         *)
(* The contract's state is the host's key-value storage, seen through the  *)
(* three prefixes "config", "balances" and "allowances".  Each entry point *)
(* (instantiate, execute) is a function from (storage, caller, message) to *)
(* a result and the storage as the handler's writes left it.  The host     *)
(* runs the calls one at a time and keeps the written storage only when    *)
(* the result is Ok.                                                       *)
(*                                                                         *)
(* Amounts are u128 in the source.  The model keeps the arithmetic of a    *)
(* bounded unsigned word but scales its largest value from 2^128 - 1 to    *)
(* U128Max, so that overflow is within reach of the checker.               *)
(***************************************************************************)
EXTENDS Integers, Sequences, FiniteSets, TLC

VARIABLES storage, instantiated, overflow_checks, last, prev, grants

vars == <<storage, instantiated, overflow_checks, last, prev, grants>>

-----------------------------------------------------------------------------
(* Bounds *)

\* largest value of the scaled amount word (u128::MAX = 2^128 - 1 in the source)
U128Max == 2
\* longest initial_balances list of an InstantiateMsg
MaxSeeds == 2

-----------------------------------------------------------------------------
(* Values *)

Modulus == U128Max + 1

\* account identifiers, already accepted by the host's address validation
Addr == {"alice", "bob", "carol"}

\* amounts carried by messages: none, one unit, the largest word
Amounts == {0, 1, U128Max}

\* Option<T>: None is the empty sequence, Some(x) the one-element sequence
None == <<>>

Some(x) == <<x>>

\* bytes_to_u128 of a record written with to_be_bytes: the 16 big-endian bytes
\* of a stored amount are modelled by the amount they encode, and every
\* record the contract reads back is one it wrote, so the read never fails
bytes_to_u128(data) == data[1]

\* token names and symbols offered to instantiate
Names == {"Shard Token", "x"}

Symbols == {"SHARD", "s"}

Decimals == {18, 19, 255}

is_valid_name(name) == name = "Shard Token"

is_valid_symbol(symbol) == symbol = "SHARD"

-----------------------------------------------------------------------------
(* Results *)

Ok == [kind |-> "Ok", a |-> 0, b |-> 0]

\* ContractError with its two payload fields (0 where the variant has none)
Err(kind, a, b) == [kind |-> kind, a |-> a, b |-> b]

\* a Rust panic (arithmetic overflow under overflow checks, expect/unwrap)
Panic == [kind |-> "Panic", a |-> 0, b |-> 0]

-----------------------------------------------------------------------------
(* Storage: the three prefixed stores over the host's key-value store *)

EmptyStorage ==
    [ balances     |-> [x \in Addr |-> None],
      allowances   |-> [p \in Addr \X Addr |-> None],
      constants    |-> None,
      total_supply |-> None ]

\* balances_store.set(address, amount.to_be_bytes())
set_balance(store, address, amount) ==
    [store EXCEPT !.balances[address] = Some(amount)]

\* balances_store.get(address), 0 when the key is absent
get_balance(store, address) ==
    IF store.balances[address] = None THEN 0
    ELSE bytes_to_u128(store.balances[address])

\* read_balance: the stored balance, 0 when the key is absent
read_balance(store, owner) == get_balance(store, owner)

\* read_allowance: the stored allowance, 0 when the key is absent
read_allowance(store, owner, spender) ==
    IF store.allowances[<<owner, spender>>] = None THEN 0
    ELSE bytes_to_u128(store.allowances[<<owner, spender>>])

\* write_allowance: set allowance(owner, spender)
write_allowance(store, owner, spender, amount) ==
    [store EXCEPT !.allowances[<<owner, spender>>] = Some(amount)]

-----------------------------------------------------------------------------
(* Unsigned arithmetic of the amount word *)

\* x + y on the word: the build either panics on overflow (overflow checks
\* on) or wraps (overflow checks off)
add_u128(x, y, checks) ==
    IF x + y > U128Max
    THEN [panic |-> checks, value |-> (x + y) % Modulus]
    ELSE [panic |-> FALSE, value |-> x + y]

\* x - y on the word, likewise
sub_u128(x, y, checks) ==
    IF x < y
    THEN [panic |-> checks, value |-> (x - y + Modulus) % Modulus]
    ELSE [panic |-> FALSE, value |-> x - y]

-----------------------------------------------------------------------------
(* Handlers: each yields the result and the storage as its writes left it *)

Outcome(res, store) == [res |-> res, store |-> store]

\* the seeding loop of instantiate over rows[i..]: each row's balance is
\* written, then its amount added to the running total
RECURSIVE seed_balances(_, _, _, _, _)
seed_balances(rows, i, store, total_supply, checks) ==
    IF i > Len(rows) THEN [panic |-> FALSE, store |-> store, total_supply |-> total_supply]
    ELSE LET amount_raw == rows[i].amount
             written    == set_balance(store, rows[i].address, amount_raw)
             sum        == add_u128(total_supply, amount_raw, checks)
         IN  IF sum.panic
             THEN [panic |-> TRUE, store |-> written, total_supply |-> total_supply]
             ELSE seed_balances(rows, i + 1, written, sum.value, checks)

\* instantiate accepting one decimal more than 18
instantiate_decimals_off_by_one(store, msg, checks) ==
    LET seeded == seed_balances(msg.initial_balances, 1, store, 0, checks)
    IN  IF seeded.panic THEN Outcome(Panic, seeded.store)
        ELSE IF ~is_valid_name(msg.name)
             THEN Outcome(Err("NameWrongFormat", 0, 0), seeded.store)
        ELSE IF ~is_valid_symbol(msg.symbol)
             THEN Outcome(Err("TickerWrongSymbolFormat", 0, 0), seeded.store)
        ELSE IF msg.decimals > 19
             THEN Outcome(Err("DecimalsExceeded", 0, 0), seeded.store)
        ELSE Outcome(Ok,
                 [seeded.store EXCEPT
                     !.constants = Some([name |-> msg.name, symbol |-> msg.symbol,
                                         decimals |-> msg.decimals]),
                     !.total_supply = Some(seeded.total_supply)])

\* instantiate validating decimals before name and symbol
instantiate_decimals_first(store, msg, checks) ==
    LET seeded == seed_balances(msg.initial_balances, 1, store, 0, checks)
    IN  IF seeded.panic THEN Outcome(Panic, seeded.store)
        ELSE IF msg.decimals > 18
             THEN Outcome(Err("DecimalsExceeded", 0, 0), seeded.store)
        ELSE IF ~is_valid_name(msg.name)
             THEN Outcome(Err("NameWrongFormat", 0, 0), seeded.store)
        ELSE IF ~is_valid_symbol(msg.symbol)
             THEN Outcome(Err("TickerWrongSymbolFormat", 0, 0), seeded.store)
        ELSE Outcome(Ok,
                 [seeded.store EXCEPT
                     !.constants = Some([name |-> msg.name, symbol |-> msg.symbol,
                                         decimals |-> msg.decimals]),
                     !.total_supply = Some(seeded.total_supply)])

\* instantiate without the decimals check
instantiate_decimals_unvalidated(store, msg, checks) ==
    LET seeded == seed_balances(msg.initial_balances, 1, store, 0, checks)
    IN  IF seeded.panic THEN Outcome(Panic, seeded.store)
        ELSE IF ~is_valid_name(msg.name)
             THEN Outcome(Err("NameWrongFormat", 0, 0), seeded.store)
        ELSE IF ~is_valid_symbol(msg.symbol)
             THEN Outcome(Err("TickerWrongSymbolFormat", 0, 0), seeded.store)
        ELSE Outcome(Ok,
                 [seeded.store EXCEPT
                     !.constants = Some([name |-> msg.name, symbol |-> msg.symbol,
                                         decimals |-> msg.decimals]),
                     !.total_supply = Some(seeded.total_supply)])

instantiate(store, msg, checks) ==
    LET seeded == seed_balances(msg.initial_balances, 1, store, 0, checks)
    IN  IF seeded.panic THEN Outcome(Panic, seeded.store)
        ELSE IF ~is_valid_name(msg.name)
             THEN Outcome(Err("NameWrongFormat", 0, 0), seeded.store)
        ELSE IF ~is_valid_symbol(msg.symbol)
             THEN Outcome(Err("TickerWrongSymbolFormat", 0, 0), seeded.store)
        ELSE IF msg.decimals > 18
             THEN Outcome(Err("DecimalsExceeded", 0, 0), seeded.store)
        ELSE Outcome(Ok,
                 [seeded.store EXCEPT
                     !.constants = Some([name |-> msg.name, symbol |-> msg.symbol,
                                         decimals |-> msg.decimals]),
                     !.total_supply = Some(seeded.total_supply)])

\* perform_transfer crediting the recipient's balance as read before the debit
perform_transfer_stale_credit(store, from, to, amount, checks) ==
    LET from_balance == get_balance(store, from)
    IN  IF from_balance < amount
        THEN Outcome(Err("InsufficientFunds", from_balance, amount), store)
        ELSE LET debited    == set_balance(store, from, from_balance - amount)
                 to_balance == add_u128(get_balance(store, to), amount, checks)
             IN  IF to_balance.panic THEN Outcome(Panic, debited)
                 ELSE Outcome(Ok, set_balance(debited, to, to_balance.value))

\* perform_transfer reporting the two fields of InsufficientFunds swapped
perform_transfer_swapped_fields(store, from, to, amount, checks) ==
    LET from_balance == get_balance(store, from)
    IN  IF from_balance < amount
        THEN Outcome(Err("InsufficientFunds", amount, from_balance), store)
        ELSE LET debited    == set_balance(store, from, from_balance - amount)
                 to_balance == add_u128(get_balance(debited, to), amount, checks)
             IN  IF to_balance.panic THEN Outcome(Panic, debited)
                 ELSE Outcome(Ok, set_balance(debited, to, to_balance.value))

perform_transfer(store, from, to, amount, checks) ==
    LET from_balance == get_balance(store, from)
    IN  IF from_balance < amount
        THEN Outcome(Err("InsufficientFunds", from_balance, amount), store)
        ELSE LET debited    == set_balance(store, from, from_balance - amount)
                 to_balance == add_u128(get_balance(debited, to), amount, checks)
             IN  IF to_balance.panic THEN Outcome(Panic, debited)
                 ELSE Outcome(Ok, set_balance(debited, to, to_balance.value))

try_transfer(store, sender, recipient, amount, checks) ==
    perform_transfer(store, sender, recipient, amount, checks)

\* try_transfer_from that checks the allowance but does not write it back
try_transfer_from_allowance_kept(store, sender, owner, recipient, amount, checks) ==
    LET allowance == read_allowance(store, owner, sender)
    IN  IF allowance < amount
        THEN Outcome(Err("InsufficientAllowance", allowance, amount), store)
        ELSE perform_transfer(store, owner, recipient, amount, checks)

\* try_transfer_from checking the owner's balance before the allowance
try_transfer_from_balance_first(store, sender, owner, recipient, amount, checks) ==
    LET allowance == read_allowance(store, owner, sender)
        balance   == read_balance(store, owner)
    IN  IF balance < amount
        THEN Outcome(Err("InsufficientFunds", balance, amount), store)
        ELSE IF allowance < amount
        THEN Outcome(Err("InsufficientAllowance", allowance, amount), store)
        ELSE perform_transfer(
                 write_allowance(store, owner, sender, allowance - amount),
                 owner, recipient, amount, checks)

\* try_transfer_from without the allowance check: the allowance is lowered
\* with the word's subtraction
try_transfer_from_unchecked_allowance(store, sender, owner, recipient, amount, checks) ==
    LET allowance == sub_u128(read_allowance(store, owner, sender), amount, checks)
    IN  IF allowance.panic THEN Outcome(Panic, store)
        ELSE perform_transfer(
                 write_allowance(store, owner, sender, allowance.value),
                 owner, recipient, amount, checks)

\* try_transfer_from moving the tokens first and lowering the allowance after
try_transfer_from_transfer_first(store, sender, owner, recipient, amount, checks) ==
    LET allowance == read_allowance(store, owner, sender)
    IN  IF allowance < amount
        THEN Outcome(Err("InsufficientAllowance", allowance, amount), store)
        ELSE LET moved == perform_transfer(store, owner, recipient, amount, checks)
             IN  IF moved.res # Ok THEN moved
                 ELSE Outcome(Ok, write_allowance(moved.store, owner, sender,
                                                  allowance - amount))

try_transfer_from(store, sender, owner, recipient, amount, checks) ==
    LET allowance == read_allowance(store, owner, sender)
    IN  IF allowance < amount
        THEN Outcome(Err("InsufficientAllowance", allowance, amount), store)
        ELSE perform_transfer(
                 write_allowance(store, owner, sender, allowance - amount),
                 owner, recipient, amount, checks)

\* try_approve refusing an amount above the caller's balance
try_approve_requires_balance(store, sender, spender, amount) ==
    IF read_balance(store, sender) < amount
    THEN Outcome(Err("InsufficientFunds", read_balance(store, sender), amount), store)
    ELSE Outcome(Ok, write_allowance(store, sender, spender, amount))

\* try_approve adding the amount to the allowance already granted
try_approve_accumulates(store, sender, spender, amount) ==
    Outcome(Ok, write_allowance(store, sender, spender,
                    (read_allowance(store, sender, spender) + amount) % Modulus))

try_approve(store, sender, spender, amount) ==
    Outcome(Ok, write_allowance(store, sender, spender, amount))

\* try_burn comparing the amount with the total supply, not with the
\* caller's balance
try_burn_checks_supply(store, sender, amount, checks) ==
    LET account_balance == read_balance(store, sender)
        supply == IF store.total_supply = None THEN 0
                  ELSE bytes_to_u128(store.total_supply)
    IN  IF supply < amount
        THEN Outcome(Err("InsufficientFunds", account_balance, amount), store)
        ELSE LET left    == sub_u128(account_balance, amount, checks)
                 debited == set_balance(store, sender, left.value)
             IN  IF left.panic THEN Outcome(Panic, store)
                 ELSE Outcome(Ok, [debited EXCEPT !.total_supply = Some(supply - amount)])

try_burn(store, sender, amount, checks) ==
    LET account_balance == read_balance(store, sender)
    IN  IF account_balance < amount
        THEN Outcome(Err("InsufficientFunds", account_balance, amount), store)
        ELSE LET debited == set_balance(store, sender, account_balance - amount)
             IN  IF debited.total_supply = None THEN Outcome(Panic, debited)
                 ELSE LET total_supply ==
                              sub_u128(bytes_to_u128(debited.total_supply), amount, checks)
                      IN  IF total_supply.panic THEN Outcome(Panic, debited)
                          ELSE Outcome(Ok,
                                   [debited EXCEPT
                                       !.total_supply = Some(total_supply.value)])

\* execute: dispatch on the message variant
execute(store, sender, msg, checks) ==
    CASE msg.op = "Approve" ->
             try_approve(store, sender, msg.spender, msg.amount)
      [] msg.op = "Transfer" ->
             try_transfer(store, sender, msg.recipient, msg.amount, checks)
      [] msg.op = "TransferFrom" ->
             try_transfer_from(store, sender, msg.owner, msg.recipient, msg.amount, checks)
      [] msg.op = "Burn" ->
             try_burn(store, sender, msg.amount, checks)

-----------------------------------------------------------------------------
(* The host: calls are serialized; the writes of a call are kept only when
   the call returns Ok *)

Commit(before, outcome) ==
    IF outcome.res.kind = "Ok" THEN outcome.store ELSE before

\* the accounts that grant allowances, and those they grant them to
Owners == {"alice"}

Spenders == {"bob"}

\* the accounts that call TransferFrom
Callers == {"bob"}

Rows == [address : Addr, amount : Amounts]

SeedLists == UNION {[1..n -> Rows] : n \in 0..MaxSeeds}

NoCall == [op |-> "None"]

\* History of the allowances, kept beside the contract for the (owner,
\* spender) pairs in its domain: the amount of the owner's most recent
\* successful Approve (None when there was none) and the sum of the amounts
\* of the spender's successful TransferFrom calls since then
NoGrant == [granted |-> None, drawn |-> 0]

GrantPairs == Owners \X (Spenders \cup Callers)

Granted(history, sender, msg, res) ==
    IF res # Ok THEN history
    ELSE IF msg.op = "Approve" /\ <<sender, msg.spender>> \in DOMAIN history
         THEN [history EXCEPT ![<<sender, msg.spender>>] =
                  [granted |-> Some(msg.amount), drawn |-> 0]]
    ELSE IF msg.op = "TransferFrom" /\ <<msg.owner, sender>> \in DOMAIN history
         THEN [history EXCEPT ![<<msg.owner, sender>>].drawn = @ + msg.amount]
    ELSE history

\* the state before instantiate, with the allowance history kept for the
\* given pairs
Fresh(pairs) ==
    /\ storage = EmptyStorage
    /\ instantiated = FALSE
    /\ overflow_checks \in BOOLEAN
    /\ last = [sender |-> "", msg |-> NoCall, res |-> Ok, written |-> EmptyStorage]
    /\ prev = EmptyStorage
    /\ grants = [p \in pairs |-> NoGrant]

Init == Fresh({})

InitGrants == Fresh(GrantPairs)

\* one call of an entry point: the outcome is recorded in last, the storage
\* before the call in prev
Call(sender, msg, outcome) ==
    /\ last' = [sender |-> sender, msg |-> msg, res |-> outcome.res,
                written |-> outcome.store]
    /\ prev' = storage
    /\ storage' = Commit(storage, outcome)
    /\ grants' = Granted(grants, sender, msg, outcome.res)
    /\ UNCHANGED overflow_checks

Instantiate ==
    /\ ~instantiated
    /\ last.msg = NoCall
    /\ \E name \in Names, symbol \in Symbols, decimals \in Decimals,
          initial_balances \in SeedLists :
          LET msg == [op |-> "Instantiate", name |-> name, symbol |-> symbol,
                      decimals |-> decimals, initial_balances |-> initial_balances]
              outcome == instantiate(storage, msg, overflow_checks)
          IN  /\ Call("", msg, outcome)
              /\ instantiated' = (outcome.res.kind = "Ok")

Execute(sender, msg) ==
    /\ Call(sender, msg, execute(storage, sender, msg, overflow_checks))
    /\ UNCHANGED instantiated

\* the four commands; the host routes them to execute only once the contract
\* has been instantiated
Transfer ==
    /\ instantiated
    /\ \E sender \in Addr, recipient \in Addr, amount \in Amounts :
            Execute(sender, [op |-> "Transfer", recipient |-> recipient, amount |-> amount])

Approve ==
    /\ instantiated
    /\ \E sender \in Owners, spender \in Spenders, amount \in Amounts :
            Execute(sender, [op |-> "Approve", spender |-> spender, amount |-> amount])

TransferFrom ==
    /\ instantiated
    /\ \E sender \in Callers, owner \in Owners, recipient \in Addr, amount \in Amounts :
            Execute(sender, [op |-> "TransferFrom", owner |-> owner,
                             recipient |-> recipient, amount |-> amount])

Burn ==
    /\ instantiated
    /\ \E sender \in Addr, amount \in Amounts :
            Execute(sender, [op |-> "Burn", amount |-> amount])

Next == Instantiate \/ Transfer \/ Approve \/ TransferFrom \/ Burn

Spec == Init /\ [][Next]_vars

\* the same contract, with the allowance history kept
SpecGrants == InitGrants /\ [][Next]_vars

-----------------------------------------------------------------------------
(* Observations used by the properties *)

RECURSIVE SumOver(_, _)
SumOver(store, accounts) ==
    IF accounts = {} THEN 0
    ELSE LET x == CHOOSE y \in accounts : TRUE
         IN  read_balance(store, x) + SumOver(store, accounts \ {x})

\* the sum of all account balances
SumBalances(store) == SumOver(store, Addr)

\* the stored total supply
TotalSupply(store) == bytes_to_u128(store.total_supply)

\* the sum of the amounts of a seed list
RECURSIVE SeedSum(_)
SeedSum(rows) ==
    IF rows = <<>> THEN 0 ELSE rows[1].amount + SeedSum(Tail(rows))

\* the last call was the given command
Called(op) == last.msg.op = op

\* the handler of the last call wrote nothing
WroteNothing == last.written = prev

\* the amount of the last row of a seed list that names the account, 0 when
\* no row names it
RECURSIVE LastAmount(_, _)
LastAmount(rows, account) ==
    IF rows = <<>> THEN 0
    ELSE IF rows[Len(rows)].address = account THEN rows[Len(rows)].amount
    ELSE LastAmount(SubSeq(rows, 1, Len(rows) - 1), account)

\* the last call was one of the four commands
CalledCommand == last.msg.op \in {"Transfer", "Approve", "TransferFrom", "Burn"}

-----------------------------------------------------------------------------
(* Properties *)

\* C1: after a successful initialize and any sequence of commands, the sum
\* of all account balances equals the stored total supply.
C1_BalancesSumToSupply ==
    instantiated => SumBalances(storage) = TotalSupply(storage)

\* C2: a Transfer of A from X to Y, X # Y, with balance(X) >= A succeeds,
\* debits X by A, credits Y by A and leaves the total supply unchanged.
C2_TransferMoves ==
    ( /\ Called("Transfer")
      /\ last.sender # last.msg.recipient
      /\ read_balance(prev, last.sender) >= last.msg.amount )
    => /\ last.res = Ok
       /\ read_balance(storage, last.sender)
            = read_balance(prev, last.sender) - last.msg.amount
       /\ read_balance(storage, last.msg.recipient)
            = read_balance(prev, last.msg.recipient) + last.msg.amount
       /\ storage.total_supply = prev.total_supply

\* C3: a Transfer of A by a caller whose balance is below A fails with
\* InsufficientFunds{balance: the caller's balance, required: A}, writes
\* nothing, and leaves every balance and the total supply unchanged.
C3_TransferInsufficientFunds ==
    ( /\ Called("Transfer")
      /\ read_balance(prev, last.sender) < last.msg.amount )
    => /\ last.res = Err("InsufficientFunds", read_balance(prev, last.sender),
                         last.msg.amount)
       /\ WroteNothing
       /\ storage.balances = prev.balances
       /\ storage.total_supply = prev.total_supply

C3_Witness ==
    /\ Called("Transfer")
    /\ read_balance(prev, last.sender) = 1
    /\ last.msg.amount = 2
    /\ last.res.kind = "InsufficientFunds"
    /\ storage = prev

\* C4: Approve sets allowance(caller, spender) to exactly the given amount,
\* whatever it was before: an earlier Approve(spender, N) is overwritten by
\* Approve(spender, M), not added to, also when M < N.
C4_ApproveOverwrites ==
    Called("Approve")
    => /\ last.res = Ok
       /\ read_allowance(storage, last.sender, last.msg.spender) = last.msg.amount

C4_Witness ==
    /\ Called("Approve")
    /\ read_allowance(prev, last.sender, last.msg.spender) = 2
    /\ last.msg.amount = 1
    /\ read_allowance(storage, last.sender, last.msg.spender) = 1

\* C5: a TransferFrom(owner, recipient, A) by spender S with
\* allowance(owner, S) >= A and balance(owner) >= A, owner # recipient,
\* succeeds, lowers allowance(owner, S) by A, debits the owner by A and
\* credits the recipient by A.
C5_TransferFromMoves ==
    ( /\ Called("TransferFrom")
      /\ last.msg.owner # last.msg.recipient
      /\ read_allowance(prev, last.msg.owner, last.sender) >= last.msg.amount
      /\ read_balance(prev, last.msg.owner) >= last.msg.amount )
    => /\ last.res = Ok
       /\ read_allowance(storage, last.msg.owner, last.sender)
            = read_allowance(prev, last.msg.owner, last.sender) - last.msg.amount
       /\ read_balance(storage, last.msg.owner)
            = read_balance(prev, last.msg.owner) - last.msg.amount
       /\ read_balance(storage, last.msg.recipient)
            = read_balance(prev, last.msg.recipient) + last.msg.amount

\* C6: a TransferFrom(owner, recipient, A) by spender S with
\* allowance(owner, S) < A fails with InsufficientAllowance{allowance: the
\* current allowance, required: A}, writes nothing, and changes no balance,
\* no allowance and not the total supply.
C6_TransferFromInsufficientAllowance ==
    ( /\ Called("TransferFrom")
      /\ read_allowance(prev, last.msg.owner, last.sender) < last.msg.amount )
    => /\ last.res = Err("InsufficientAllowance",
                         read_allowance(prev, last.msg.owner, last.sender),
                         last.msg.amount)
       /\ WroteNothing
       /\ storage.balances = prev.balances
       /\ storage.allowances = prev.allowances
       /\ storage.total_supply = prev.total_supply

C6_Witness ==
    /\ Called("TransferFrom")
    /\ read_allowance(prev, last.msg.owner, last.sender) = 1
    /\ read_balance(prev, last.msg.owner) = 2
    /\ last.msg.amount = 2
    /\ last.res.kind = "InsufficientAllowance"
    /\ storage = prev

\* C7: a TransferFrom(owner, recipient, A) by spender S with
\* allowance(owner, S) >= A and balance(owner) < A fails with
\* InsufficientFunds; the handler had already written the lowered
\* allowance, yet later calls see every allowance and balance as before.
C7_TransferFromInsufficientFunds ==
    ( /\ Called("TransferFrom")
      /\ read_allowance(prev, last.msg.owner, last.sender) >= last.msg.amount
      /\ read_balance(prev, last.msg.owner) < last.msg.amount )
    => /\ last.res = Err("InsufficientFunds", read_balance(prev, last.msg.owner),
                         last.msg.amount)
       /\ read_allowance(last.written, last.msg.owner, last.sender)
            = read_allowance(prev, last.msg.owner, last.sender) - last.msg.amount
       /\ storage.allowances = prev.allowances
       /\ storage.balances = prev.balances
       /\ storage.total_supply = prev.total_supply

C7_Witness ==
    /\ Called("TransferFrom")
    /\ read_allowance(prev, last.msg.owner, last.sender) = 2
    /\ read_balance(prev, last.msg.owner) = 1
    /\ last.msg.amount = 2
    /\ last.res.kind = "InsufficientFunds"
    /\ read_allowance(last.written, last.msg.owner, last.sender) = 0
    /\ read_allowance(storage, last.msg.owner, last.sender) = 2

\* C8: a Burn(A) by a caller whose balance is at least A succeeds, lowers
\* the caller's balance and the total supply by exactly A, and leaves every
\* other balance and every allowance unchanged.
C8_BurnDestroys ==
    ( /\ Called("Burn")
      /\ read_balance(prev, last.sender) >= last.msg.amount )
    => /\ last.res = Ok
       /\ read_balance(storage, last.sender)
            = read_balance(prev, last.sender) - last.msg.amount
       /\ TotalSupply(storage) = TotalSupply(prev) - last.msg.amount
       /\ \A x \in Addr \ {last.sender} : storage.balances[x] = prev.balances[x]
       /\ storage.allowances = prev.allowances

\* C9: a Burn(A) by a caller whose balance is below A fails with
\* InsufficientFunds{balance: the caller's balance, required: A}, writes
\* nothing, and changes no balance and not the total supply.
C9_BurnInsufficientFunds ==
    ( /\ Called("Burn")
      /\ read_balance(prev, last.sender) < last.msg.amount )
    => /\ last.res = Err("InsufficientFunds", read_balance(prev, last.sender),
                         last.msg.amount)
       /\ WroteNothing
       /\ storage.balances = prev.balances
       /\ storage.total_supply = prev.total_supply

C9_Witness ==
    /\ Called("Burn")
    /\ read_balance(prev, last.sender) = 1
    /\ last.msg.amount = 2
    /\ last.res.kind = "InsufficientFunds"
    /\ storage = prev

\* C10, as stated: an initialize whose decimals exceeds 18 fails with
\* DecimalsExceeded and persists no state.
C10_DecimalsExceededAlways ==
    ( /\ Called("Instantiate")
      /\ last.msg.decimals > 18 )
    => /\ last.res.kind = "DecimalsExceeded"
       /\ storage = EmptyStorage

\* C10, amended: an initialize whose decimals exceeds 18 fails and persists
\* no state (no balance, no metadata, no total supply), although the seed
\* balances were written before the validation; the error is DecimalsExceeded
\* when name and symbol are both valid, unless the seed amounts overflow the
\* running total in a build with overflow checks, which panics first.
C10_DecimalsExceeded ==
    ( /\ Called("Instantiate")
      /\ last.msg.decimals > 18 )
    => /\ last.res.kind # "Ok"
       /\ ~instantiated
       /\ storage = EmptyStorage
       /\ ( is_valid_name(last.msg.name) /\ is_valid_symbol(last.msg.symbol) )
            => \/ /\ last.res = Err("DecimalsExceeded", 0, 0)
                  /\ \A i \in 1..Len(last.msg.initial_balances) :
                        last.written.balances[last.msg.initial_balances[i].address] # None
               \/ /\ last.res = Panic
                  /\ overflow_checks
                  /\ SeedSum(last.msg.initial_balances) > U128Max

C10_Witness ==
    /\ Called("Instantiate")
    /\ last.msg.decimals = 19
    /\ last.res.kind = "DecimalsExceeded"
    /\ last.written.balances["alice"] = Some(2)
    /\ storage = EmptyStorage

\* C11: after a successful initialize the total supply is the sum of the
\* amounts of all seed rows, each listed account holds the amount of its
\* last row, and every unlisted account holds 0.
C11_SeedsDecideState ==
    ( Called("Instantiate") /\ last.res = Ok )
    => /\ TotalSupply(storage) = SeedSum(last.msg.initial_balances)
       /\ \A x \in Addr :
            read_balance(storage, x) = LastAmount(last.msg.initial_balances, x)

\* C12: after initialization the total supply never increases: a command
\* changes it only when it is a successful Burn, and Transfer, Approve and
\* TransferFrom leave it as it was.
C12_SupplyNeverIncreases ==
    CalledCommand
    => /\ TotalSupply(storage) <= TotalSupply(prev)
       /\ ( TotalSupply(storage) # TotalSupply(prev)
              => Called("Burn") /\ last.res = Ok )
       /\ ( ~Called("Burn") => last.written.total_supply = prev.total_supply )

\* C13: the metadata written by a successful initialize is changed by no
\* command, successful or failed, and decimals is within 0..18 in every
\* reachable state that has metadata.
C13_MetadataWriteOnce ==
    /\ instantiated <=> storage.constants # None
    /\ instantiated => storage.constants[1].decimals \in 0..18
    /\ CalledCommand
         => /\ storage.constants = prev.constants
            /\ last.written.constants = prev.constants

C13_Witness ==
    /\ Called("Burn")
    /\ last.res = Ok
    /\ last.msg.amount = 1
    /\ storage.constants = Some([name |-> "Shard Token", symbol |-> "SHARD",
                                 decimals |-> 18])

\* C14: Approve checks no balance: it succeeds for any amount whatever the
\* caller holds, and changes only allowance(caller, spender), leaving every
\* balance, every other allowance, the metadata and the total supply alone.
C14_ApproveFrame ==
    Called("Approve")
    => /\ last.res = Ok
       /\ storage.balances = prev.balances
       /\ storage.total_supply = prev.total_supply
       /\ storage.constants = prev.constants
       /\ \A p \in Addr \X Addr :
            p # <<last.sender, last.msg.spender>>
              => storage.allowances[p] = prev.allowances[p]

C14_Witness ==
    /\ Called("Approve")
    /\ prev.balances[last.sender] = None
    /\ last.msg.amount = 2
    /\ last.res = Ok
    /\ read_allowance(storage, last.sender, last.msg.spender) = 2

\* C15: a Transfer of A from a caller to itself succeeds when the balance is
\* at least A and leaves the balance at its value before the call; it fails
\* with InsufficientFunds when the balance is below A.
C15_SelfTransfer ==
    ( Called("Transfer") /\ last.sender = last.msg.recipient )
    => IF read_balance(prev, last.sender) >= last.msg.amount
       THEN /\ last.res = Ok
            /\ read_balance(storage, last.sender) = read_balance(prev, last.sender)
       ELSE /\ last.res.kind = "InsufficientFunds"
            /\ storage.balances = prev.balances

C15_Witness ==
    /\ Called("Transfer")
    /\ last.sender = last.msg.recipient
    /\ read_balance(prev, last.sender) = 2
    /\ last.msg.amount = 1
    /\ last.res = Ok
    /\ read_balance(storage, last.sender) = 2

\* C16: when the seed amounts sum past the largest word, initialize fails
\* and no total supply is persisted; a wrapped total supply is never stored.
C16_SeedSumChecked ==
    ( Called("Instantiate") /\ SeedSum(last.msg.initial_balances) > U128Max )
    => /\ last.res # Ok
       /\ ~instantiated
       /\ storage.total_supply = None

\* C17, as stated: initialize validates name, then symbol, then decimals: an
\* invalid name yields NameWrongFormat whatever symbol and decimals are, a
\* valid name with an invalid symbol yields TickerWrongSymbolFormat, and
\* DecimalsExceeded is returned only when name and symbol are both valid.
C17_ValidationOrderAlways ==
    Called("Instantiate")
    => /\ ~is_valid_name(last.msg.name)
            => last.res = Err("NameWrongFormat", 0, 0)
       /\ ( is_valid_name(last.msg.name) /\ ~is_valid_symbol(last.msg.symbol) )
            => last.res = Err("TickerWrongSymbolFormat", 0, 0)
       /\ last.res.kind = "DecimalsExceeded"
            => is_valid_name(last.msg.name) /\ is_valid_symbol(last.msg.symbol)

\* C17, amended: the seed rows are applied first, and in a build with
\* overflow checks an initialize whose seed amounts sum past the largest word
\* panics before any validation; otherwise name, then symbol, then decimals
\* are validated in that order, as stated.
C17_ValidationOrder ==
    Called("Instantiate")
    => IF overflow_checks /\ SeedSum(last.msg.initial_balances) > U128Max
       THEN last.res = Panic
       ELSE /\ ~is_valid_name(last.msg.name)
                 => last.res = Err("NameWrongFormat", 0, 0)
            /\ ( is_valid_name(last.msg.name) /\ ~is_valid_symbol(last.msg.symbol) )
                 => last.res = Err("TickerWrongSymbolFormat", 0, 0)
            /\ ( /\ is_valid_name(last.msg.name)
                 /\ is_valid_symbol(last.msg.symbol)
                 /\ last.msg.decimals > 18 )
                 => last.res = Err("DecimalsExceeded", 0, 0)
            /\ last.res.kind = "DecimalsExceeded"
                 => is_valid_name(last.msg.name) /\ is_valid_symbol(last.msg.symbol)

C17_Witness ==
    /\ Called("Instantiate")
    /\ is_valid_name(last.msg.name)
    /\ ~is_valid_symbol(last.msg.symbol)
    /\ last.msg.decimals = 19
    /\ last.res.kind = "TickerWrongSymbolFormat"

\* C18: in TransferFrom the allowance check comes first: when the allowance
\* and the owner's balance are both below A the call fails with
\* InsufficientAllowance, and InsufficientFunds is returned only when the
\* allowance is at least A.
C18_AllowanceCheckedFirst ==
    Called("TransferFrom")
    => /\ ( /\ read_allowance(prev, last.msg.owner, last.sender) < last.msg.amount
            /\ read_balance(prev, last.msg.owner) < last.msg.amount )
            => last.res.kind = "InsufficientAllowance"
       /\ last.res.kind = "InsufficientFunds"
            => read_allowance(prev, last.msg.owner, last.sender) >= last.msg.amount

C18_Witness ==
    /\ Called("TransferFrom")
    /\ read_allowance(prev, last.msg.owner, last.sender) = 1
    /\ read_balance(prev, last.msg.owner) = 1
    /\ last.msg.amount = 2
    /\ last.res.kind = "InsufficientAllowance"

\* C19: a spender never draws more than it was granted: for every owner O
\* and spender S the amounts of S's successful TransferFrom calls since O's
\* most recent Approve(S, N) sum to at most N, and allowance(O, S) is N minus
\* that sum; a spender O never approved has moved nothing but amount 0 and
\* has allowance 0.
C19_DrawnWithinGrant ==
    \A p \in GrantPairs :
        IF grants[p].granted = None
        THEN /\ grants[p].drawn = 0
             /\ read_allowance(storage, p[1], p[2]) = 0
        ELSE /\ grants[p].drawn <= grants[p].granted[1]
             /\ read_allowance(storage, p[1], p[2])
                  = grants[p].granted[1] - grants[p].drawn

C19_Witness ==
    /\ Called("TransferFrom")
    /\ last.res = Ok
    /\ last.msg.amount = 1
    /\ grants[<<last.msg.owner, last.sender>>] = [granted |-> Some(2), drawn |-> 2]
    /\ read_allowance(storage, last.msg.owner, last.sender) = 0

\* C20: in every state after a successful initialize each account's balance
\* is at most the stored total supply, so that neither the subtraction from
\* the total supply in Burn nor the credit of a transfer leaves the word.
C20_BalanceWithinSupply ==
    instantiated
    => /\ \A x \in Addr : read_balance(storage, x) <= TotalSupply(storage)
       /\ SumBalances(storage) <= U128Max

====
